---- MODULE Spec2Model ----
(***************************************************************************)
(* Slotted union-find of src/suf.py: classes with an arity, a leader edge  *)
(* and a permutation group; alloc, find, union, is_equal.                   *)
(*                                                                         *)
(* Ids and slot positions are 0-based as in the source; TLA+ sequences are *)
(* 1-based, so the class of id i is classes[i + 1] and the entry of a      *)
(* tuple t at source index k is t[k + 1].                                   *)
(***************************************************************************)
EXTENDS Integers, Sequences, FiniteSets, TLC

\* Bounds of the model.
MaxArity == 3       \* arities passed to alloc are 0..MaxArity
MaxSlot == 2        \* slot labels of the callers' applied ids are 0..MaxSlot
MaxCalls == 3       \* public operations called on one SlottedUF

VARIABLES
    classes,    \* SlottedUF.classes: the sequence of Class records, by id
    err,        \* "" or the fatal error that ended the last operation
    calls,      \* the number of public operations called so far
    call        \* the observed call, if there is one: its arguments and the
                \* classes it started from (a history variable)

vars == <<classes, err, calls, call>>

Slots == 0 .. MaxSlot
Arities == 0 .. MaxArity

(***************************************************************************)
(* Data                                                                    *)
(***************************************************************************)
AppliedId(id, args) == [id |-> id, args |-> args]

\* Python's None for a leader, and for the group of a redirected class.
NoLeader == [id |-> -1, args |-> <<>>]
NoGroup == [perms |-> {}]

identity_perm(arity) == [i \in 1 .. arity |-> i - 1]

\* Group.__init__
Group(arity) == [perms |-> {identity_perm(arity)}]

\* Class.__init__
Class(arity) == [group |-> Group(arity), arity |-> arity, leader |-> NoLeader]

\* set(t) of a tuple
SetOf(t) == {t[i] : i \in 1 .. Len(t)}

\* s in t
InSeq(t, s) == \E i \in 1 .. Len(t) : t[i] = s

\* t.index(s): the first source index of s in t
index(t, s) == (CHOOSE i \in 1 .. Len(t) : t[i] = s /\ \A j \in 1 .. (i - 1) : t[j] # s) - 1

(***************************************************************************)
(* reorder: d is the dict in insertion order, d[s] = (position of s) - 1   *)
(***************************************************************************)
RECURSIVE reorder_args(_, _)
reorder_args(d, rest) ==
    IF rest = <<>> THEN [d |-> d, args |-> <<>>]
    ELSE LET s == Head(rest)
             d1 == IF InSeq(d, s) THEN d ELSE Append(d, s)
             r == reorder_args(d1, Tail(rest))
         IN  [d |-> r.d, args |-> <<index(d1, s)>> \o r.args]

RECURSIVE reorder_from(_, _)
reorder_from(d, app_ids) ==
    IF app_ids = <<>> THEN [d |-> d, out |-> <<>>]
    ELSE LET a == Head(app_ids)
             r == reorder_args(d, a.args)
             rr == reorder_from(r.d, Tail(app_ids))
         IN  [d |-> rr.d, out |-> <<AppliedId(a.id, r.args)>> \o rr.out]

\* reorder with a dict that is not empty at the start.
reorder_seeded(app_ids) == reorder_from(<<1>>, app_ids)

\* reorder with a fresh dict for each applied id.
reorder_each(app_ids) ==
    [d |-> reorder_from(<<>>, app_ids).d,
     out |-> [i \in 1 .. Len(app_ids) |-> reorder_from(<<>>, <<app_ids[i]>>).out[1]]]

reorder(app_ids) == reorder_from(<<>>, app_ids)

(***************************************************************************)
(* Group                                                                   *)
(***************************************************************************)
compose(x, y) == [i \in 1 .. Len(x) |-> x[y[i] + 1]]

RECURSIVE complete(_)
complete(perms) ==
    LET new == {compose(x, y) : x \in perms, y \in perms}
        upd == perms \cup new
    IN  IF Cardinality(upd) = Cardinality(perms) THEN upd ELSE complete(upd)

\* add without the closure: the tuple is stored and nothing else.
add_no_complete(g, x) == [perms |-> g.perms \cup {x}]

add(g, x) == [perms |-> complete(g.perms \cup {x})]

\* orbit that holds the position alone.
orbit_single(g, s) == {s}

orbit(g, s) == {s} \cup {p[s + 1] : p \in g.perms}

contains(g, x) == x \in g.perms

(***************************************************************************)
(* SlottedUF                                                               *)
(***************************************************************************)
alloc(cs, arity) == [cs |-> Append(cs, Class(arity)), id |-> Len(cs)]

\* The loop of find, with the number of leader edges it may still follow.
\* A chain of an acyclic leader graph has fewer than Len(cs) edges, so the
\* loop that runs out of fuel is the loop that does not terminate.
RECURSIVE find_loop(_, _, _)
find_loop(cs, x, fuel) ==
    LET l == cs[x.id + 1].leader
    IN  IF l = NoLeader \/ fuel = 0 THEN x
        ELSE find_loop(cs, AppliedId(l.id, [i \in 1 .. Len(l.args) |-> x.args[l.args[i] + 1]]),
                       fuel - 1)

\* find that follows one leader edge only (an if for the while)
find_one_edge(cs, x) == find_loop(cs, x, 1)

\* find that reaches the canonical class and keeps the args of x.
find_keeps_args(cs, x) == AppliedId(find_loop(cs, x, Len(cs)).id, x.args)

find(cs, x) == find_loop(cs, x, Len(cs))

is_equal(cs, x, y) ==
    LET fx == find(cs, x)
        fy == find(cs, y)
    IN  IF fx.id # fy.id THEN FALSE
        ELSE contains(cs[fx.id + 1].group, reorder(<<fx, fy>>).out[2].args)

\* What a mutating operation leaves behind: the classes, the fatal error that
\* ended it ("" when it returned), and, for an assertion that failed inside the
\* loop of add_uf_edge, the target class with the transferred symmetries that
\* pass the assertion (the ones the loop may have added before it failed).
Returned(cs) == [cs |-> cs, err |-> "", tgt |-> -1, passed |-> {}]
Failed(cs, e, tgt, passed) == [cs |-> cs, err |-> e, tgt |-> tgt, passed |-> passed]

\* group.add(p) for every p of ps, one after the other
RECURSIVE add_all(_, _)
add_all(g, ps) ==
    IF ps = {} THEN g
    ELSE LET p == CHOOSE q \in ps : TRUE
         IN  add_all(add(g, p), ps \ {p})

\* add_uf_edge with the edge the wrong way round: y.id is made to point to x
add_uf_edge_reversed(cs, x, y) ==
    Returned([cs EXCEPT ![y.id + 1].leader = AppliedId(x, y.args),
                        ![y.id + 1].group = NoGroup])

\* Makes x point to y in the unionfind.
add_uf_edge(cs, x, y) ==
    LET cs1 == [cs EXCEPT ![x + 1].leader = y]
        x_arity == cs[x + 1].arity
        y_arity == cs[y.id + 1].arity
        identity == identity_perm(x_arity)
        \* the equation of permutation p, transformed from x to y.id
        rhs(p) == reorder(<<find(cs1, AppliedId(x, identity)),
                            find(cs1, AppliedId(x, p))>>).out[2].args
        moved == {rhs(p) : p \in cs[x + 1].group.perms}
        passing == {q \in moved : \A i \in 1 .. Len(q) : q[i] < y_arity}
    IN  IF passing # moved
        THEN Failed(cs1, "assert", y.id, passing)
        ELSE Returned([cs1 EXCEPT ![y.id + 1].group = add_all(@, moved),
                                  ![x + 1].group = NoGroup])

mark_slots_redundant(cs, x0, slots) ==
    LET x == find(cs, x0)
        redundants == UNION {orbit(cs[x.id + 1].group, index(x.args, s)) :
                                s \in {t \in slots : InSeq(x.args, t)}}
        old_arity == cs[x.id + 1].arity
        new_arity == old_arity - Cardinality(redundants)
        a == alloc(cs, new_arity)
        args == SelectSeq(identity_perm(old_arity), LAMBDA s : s \notin redundants)
    IN  IF redundants = {} THEN Returned(cs)
        ELSE add_uf_edge(a.cs, x.id, AppliedId(a.id, args))

\* union that installs a leader edge for a self-symmetry too
union_edge_no_symmetry(cs, x0, y0) ==
    IF is_equal(cs, x0, y0) THEN Returned(cs)
    ELSE LET r == reorder(<<x0, y0>>).out
         IN  add_uf_edge(cs, r[1].id, r[2])

\* union that drops a self-symmetry instead of storing it
union_edge_drops_symmetry(cs, x0, y0) ==
    IF is_equal(cs, x0, y0) THEN Returned(cs)
    ELSE LET r == reorder(<<x0, y0>>).out
         IN  IF r[1].id = r[2].id THEN Returned(cs)
             ELSE add_uf_edge(cs, r[1].id, r[2])

\* Phase 2 of union, on the canonical x and y the loop ended with.
union_edge(cs, x0, y0) ==
    IF is_equal(cs, x0, y0) THEN Returned(cs)
    ELSE LET r == reorder(<<x0, y0>>).out
             x == r[1]
             y == r[2]
         IN  IF x.id = y.id
             THEN Returned([cs EXCEPT ![x.id + 1].group = add(@, y.args)])
             ELSE add_uf_edge(cs, x.id, y)

\* The loop of union, with the number of iterations it may still take; an
\* iteration that does not exit marks at least one slot redundant, so more
\* iterations than there are slots in x and y is a loop that does not end.
RECURSIVE union_loop(_, _, _, _)
union_loop(cs, x0, y0, fuel) ==
    LET x == find(cs, x0)
        y == find(cs, y0)
        Sx == SetOf(x.args)
        Sy == SetOf(y.args)
        r1 == mark_slots_redundant(cs, x, Sx \ Sy)
        r2 == mark_slots_redundant(r1.cs, y, Sy \ Sx)
    IN  IF Sx = Sy THEN union_edge(cs, x, y)
        ELSE IF fuel = 0 THEN Failed(cs, "loop", -1, {})
        ELSE IF r1.err # "" THEN r1
        ELSE IF r2.err # "" THEN r2
        ELSE union_loop(r2.cs, x, y, fuel - 1)

union(cs, x, y) == union_loop(cs, x, y, Len(x.args) + Len(y.args))

(***************************************************************************)
(* State machine                                                           *)
(***************************************************************************)
NoCall == [op |-> "none", x |-> NoLeader, y |-> NoLeader, before |-> <<>>]

Init ==
    /\ classes = <<>>
    /\ err = ""
    /\ calls = 0
    /\ call = NoCall

\* The caller may go on while no call is under observation, no fatal error
\* has been raised and the bound on the number of calls is not reached.
MayCall ==
    /\ call = NoCall
    /\ err = ""
    /\ calls < MaxCalls

Alloc(arity) ==
    /\ MayCall
    /\ classes' = alloc(classes, arity).cs
    /\ calls' = calls + 1
    /\ UNCHANGED <<err, call>>

\* The allocated ids.
Ids(cs) == 0 .. (Len(cs) - 1)

\* The well-formed applied ids: an allocated id, len(args) = the class's arity;
\* slots may repeat.
Tuples(n) == [1 .. n -> Slots]
WellFormed(cs) == UNION {{AppliedId(i, a) : a \in Tuples(cs[i + 1].arity)} : i \in Ids(cs)}

\* The operations compare slots only for equality, so a pair of applied ids
\* stands for all its renamings: the caller's pair is taken with its slots
\* numbered in the order they first occur.
FirstOccurrenceOrder(x, y) == reorder(<<x, y>>).out = <<x, y>>

\* union(x, y). An assertion that fails in add_uf_edge leaves the leader edge
\* installed and the symmetries S the loop visited before the failing one added.
\* An observed call is the last one: it keeps its arguments and the classes
\* before it for the postconditions of union.
Union(x, y, observed) ==
    /\ MayCall
    /\ LET r == union(classes, x, y)
       IN  /\ err' = r.err
           /\ \E S \in SUBSET r.passed :
                 classes' = IF r.err = "assert"
                            THEN [r.cs EXCEPT ![r.tgt + 1].group = add_all(@, S)]
                            ELSE r.cs
    /\ calls' = calls + 1
    /\ call' = IF observed
               THEN [op |-> "union", x |-> x, y |-> y, before |-> classes]
               ELSE call

Next ==
    \/ \E a \in Arities : Alloc(a)
    \/ /\ MayCall
       /\ \E x \in WellFormed(classes), y \in WellFormed(classes), observed \in BOOLEAN :
             /\ FirstOccurrenceOrder(x, y)
             /\ Union(x, y, observed)

Spec == Init /\ [][Next]_vars

(***************************************************************************)
(* Properties                                                              *)
(***************************************************************************)
\* The observed call is a union that returned.
UnionReturned == call.op = "union" /\ err = ""

\* The arity of the canonical class find reaches from class c.
canonical_arity(cs, c) ==
    cs[find(cs, AppliedId(c, identity_perm(cs[c + 1].arity))).id + 1].arity

\* C1: once union(x, y) has returned, is_equal(find(x), find(y)) is true.
UnionImpliesEqual ==
    UnionReturned =>
        is_equal(classes, find(classes, call.x), find(classes, call.y))

\* C2: is_equal(x, x) is true of every well-formed applied id x, repeated
\* slots included.
Reflexivity == \A x \in WellFormed(classes) : is_equal(classes, x, x)

\* C3: an equality that held before a union that returned holds after it.
Monotonicity ==
    UnionReturned =>
        \A p \in WellFormed(call.before), q \in WellFormed(call.before) :
            is_equal(call.before, p, q) => is_equal(classes, p, q)

\* C4 as stated: a leader edge leader(c) = c'[a] has len(a) = arity(c) and
\* every entry of a below arity(c').
ArityLawAsStated ==
    \A c \in Ids(classes) :
        LET l == classes[c + 1].leader
        IN  l # NoLeader =>
                /\ Len(l.args) = classes[c + 1].arity
                /\ \A i \in 1 .. Len(l.args) : l.args[i] < classes[l.id + 1].arity

\* C4 as amended: a leader edge leader(c) = c'[a] has len(a) = arity(c'), the
\* target, and every entry of a below arity(c), the source.
ArityLaw ==
    \A c \in Ids(classes) :
        LET l == classes[c + 1].leader
        IN  l # NoLeader =>
                /\ Len(l.args) = classes[l.id + 1].arity
                /\ \A i \in 1 .. Len(l.args) : l.args[i] < classes[c + 1].arity

\* C4's case: a leader edge between classes of different arities.
ArityLawWitness ==
    \E c \in Ids(classes) :
        LET l == classes[c + 1].leader
        IN  l # NoLeader /\ classes[l.id + 1].arity < classes[c + 1].arity

\* C5: find(x) is an applied id of a class without leader, and find leaves it
\* as it is.
FindCanonical ==
    \A x \in WellFormed(classes) :
        LET f == find(classes, x)
        IN  /\ classes[f.id + 1].leader = NoLeader
            /\ find(classes, f) = f

\* C5's case: find follows two leader edges or more and renames the slots.
FindCanonicalWitness ==
    \E x \in WellFormed(classes) :
        LET l == classes[x.id + 1].leader
            f == find(classes, x)
        IN  /\ l # NoLeader
            /\ f.id # l.id
            /\ Len(f.args) > 0
            /\ f.args # SubSeq(x.args, 1, Len(f.args))

\* Following the leader edges from class c for at most n edges ends at a class
\* without leader.
RECURSIVE EndsWithin(_, _, _)
EndsWithin(cs, c, n) ==
    LET l == cs[c + 1].leader
    IN  IF l = NoLeader THEN TRUE
        ELSE IF n = 0 THEN FALSE
        ELSE EndsWithin(cs, l.id, n - 1)

\* C6: the leader graph is acyclic: from every class the leader edges end at a
\* class without leader after fewer edges than there are classes.
LeaderAcyclic == \A c \in Ids(classes) : EndsWithin(classes, c, Len(classes) - 1)

\* C6's case: a chain of two leader edges, the second one to an older class.
LeaderAcyclicWitness ==
    \E c \in Ids(classes) :
        LET l == classes[c + 1].leader
        IN  /\ l # NoLeader
            /\ classes[l.id + 1].leader # NoLeader
            /\ classes[l.id + 1].leader.id < l.id

\* C7: union is total on well-formed inputs: no call ends in a fatal error
\* (the assertion of add_uf_edge, or the loop of union not ending).
UnionTotal == err = ""

\* C8: after union(x, y) the canonical forms have the same slot set, a subset
\* of the slots x and y share.
UnionSlotSets ==
    UnionReturned =>
        LET fx == find(classes, call.x)
            fy == find(classes, call.y)
        IN  /\ SetOf(fx.args) = SetOf(fy.args)
            /\ SetOf(fx.args) \subseteq (SetOf(call.x.args) \cap SetOf(call.y.args))

\* C9: after union(x, y), a side with a slot the other side lacks has a
\* canonical class of strictly smaller arity than its class.
RedundancySoundness ==
    UnionReturned =>
        \A side \in {<<call.x, call.y>>, <<call.y, call.x>>} :
            SetOf(side[1].args) \ SetOf(side[2].args) # {} =>
                canonical_arity(classes, side[1].id) < classes[side[1].id + 1].arity

\* C10: the arity of the canonical class of a class does not grow across a
\* union.
ArityMonotone ==
    UnionReturned =>
        \A c \in Ids(call.before) :
            canonical_arity(classes, c) <= canonical_arity(call.before, c)

\* Class c is canonical (no leader, a group) or redirected (a leader, no group).
Canonical(cs, c) == cs[c + 1].leader = NoLeader /\ cs[c + 1].group # NoGroup
Redirected(cs, c) == cs[c + 1].leader # NoLeader /\ cs[c + 1].group = NoGroup

\* C11: after every public operation each class is canonical or redirected,
\* and a redirected class keeps its leader and never regains a group.
ClassStates ==
    [][/\ \A c \in Ids(classes') : Canonical(classes', c) \/ Redirected(classes', c)
       /\ \A c \in Ids(classes) :
             classes[c + 1].leader # NoLeader =>
                 /\ classes'[c + 1].leader = classes[c + 1].leader
                 /\ classes'[c + 1].group = NoGroup]_vars

(***************************************************************************)
(* A Group of its own, as in test3: g = Group(n), then g.add(p) for tuples *)
(* p of matching length. The group is held as the group of one class; the  *)
(* call record keeps the set of the tuples added so far.                   *)
(***************************************************************************)
Maps(n) == [1 .. n -> 0 .. (n - 1)]

InitGroup ==
    /\ classes \in {<<Class(n)>> : n \in Arities}
    /\ err = ""
    /\ calls = 0
    /\ call = NoCall

\* compose(x, y) raises IndexError: y[i] or x[y[i]] is out of range for an
\* i in range(len(x)).
compose_raises(x, y) == \E i \in 1 .. Len(x) : i > Len(y) \/ y[i] >= Len(x)

\* Group.complete with its exceptions: whether a compose of the loop raises,
\* and self.perms when it does. The set new is local and lost by the raise.
RECURSIVE complete_raises(_)
complete_raises(perms) ==
    IF \E x \in perms, y \in perms : compose_raises(x, y)
    THEN [raised |-> TRUE, perms |-> perms]
    ELSE LET upd == perms \cup {compose(x, y) : x \in perms, y \in perms}
         IN  IF Cardinality(upd) = Cardinality(perms)
             THEN [raised |-> FALSE, perms |-> upd]
             ELSE complete_raises(upd)

\* g.add(p) that returns normally whatever p is, with p stored.
GroupAddStored(p) ==
    /\ calls < MaxCalls
    /\ err = ""
    /\ classes' = [classes EXCEPT ![1].group.perms = @ \cup {p}]
    /\ calls' = calls + 1
    /\ call' = [op |-> "add", x |-> AppliedId(0, p), y |-> NoLeader, before |-> classes,
                added |-> (IF call.op = "add" THEN call.added ELSE {}) \cup {p}]
    /\ UNCHANGED err

\* g.add(p): p is stored, then complete() runs; an IndexError of compose ends
\* the call and the use of the group.
GroupAdd(p) ==
    /\ calls < MaxCalls
    /\ err = ""
    /\ LET r == complete_raises(classes[1].group.perms \cup {p})
       IN  /\ classes' = [classes EXCEPT ![1].group =
                             IF r.raised THEN [perms |-> r.perms] ELSE add(@, p)]
           /\ err' = IF r.raised THEN "IndexError" ELSE ""
    /\ calls' = calls + 1
    /\ call' = [op |-> "add", x |-> AppliedId(0, p), y |-> NoLeader, before |-> classes,
                added |-> (IF call.op = "add" THEN call.added ELSE {}) \cup {p}]

NextGroup == \E p \in Maps(classes[1].arity) : GroupAdd(p)

SpecGroup == InitGroup /\ [][NextGroup]_vars

\* The same with tuples of any length up to MaxArity over the slots.
NextGroupAnyLength == \E p \in UNION {Tuples(n) : n \in Arities} : GroupAdd(p)

SpecGroupAnyLength == InitGroup /\ [][NextGroupAnyLength]_vars

\* The compositions of the identity and the tuples of gens: all products
\* e . g1 . g2 ... gk, built one factor at a time.
RECURSIVE products(_, _)
products(S, gens) ==
    LET T == S \cup {compose(s, g) : s \in S, g \in gens}
    IN  IF T = S THEN S ELSE products(T, gens)

\* test3: the 4-cycle added to Group(4) gives exactly its 4 powers.
test3 ==
    LET g == add(Group(4), <<1, 2, 3, 0>>)
    IN  /\ contains(g, <<2, 3, 0, 1>>)
        /\ g.perms = {<<0, 1, 2, 3>>, <<1, 2, 3, 0>>, <<2, 3, 0, 1>>, <<3, 0, 1, 2>>}

\* C12: after any sequence of Group.add calls the set of a group contains the
\* identity, is closed under compose, holds only tuples whose length is the
\* arity, and holds nothing beyond the compositions of the identity and the
\* added tuples.
GroupClosure ==
    /\ \A c \in Ids(classes) :
          LET C == classes[c + 1]
          IN  C.group # NoGroup =>
                 /\ contains(C.group, identity_perm(C.arity))
                 /\ \A p \in C.group.perms, q \in C.group.perms :
                       contains(C.group, compose(p, q))
                 /\ \A p \in C.group.perms : Len(p) = C.arity
    /\ call.op = "add" =>
          classes[1].group.perms = products({identity_perm(classes[1].arity)}, call.added)
    /\ test3

\* A 3-cycle was added to Group(3): the group holds its square too.
GroupClosureWitness ==
    /\ call.op = "add"
    /\ call.added = {<<1, 2, 0>>}
    /\ classes[1].group.perms = {<<0, 1, 2>>, <<1, 2, 0>>, <<2, 0, 1>>}

(***************************************************************************)
(* reorder on its own: a tuple t of up to two applied ids (union hands it  *)
(* two, add_uf_edge one) is reordered, and the result reordered again.     *)
(***************************************************************************)
AppliedIds ==
    UNION {{AppliedId(i, a) : a \in Tuples(n)} : i \in 0 .. (MaxCalls - 1), n \in Arities}

ReorderInputs ==
    {<<>>} \cup {<<x>> : x \in AppliedIds} \cup {<<x, y>> : x \in AppliedIds, y \in AppliedIds}

InitReorder ==
    /\ classes = <<>>
    /\ err = ""
    /\ calls = 0
    /\ call \in {[op |-> "input", out |-> t] : t \in ReorderInputs}

\* (d, out) = reorder(t), where t is the input or the out of the reorder before.
Reorder ==
    /\ calls < MaxCalls
    /\ LET r == reorder(call.out)
       IN  call' = [op |-> "reorder", t |-> call.out, d |-> r.d, out |-> r.out]
    /\ calls' = calls + 1
    /\ UNCHANGED <<classes, err>>

NextReorder == Reorder

SpecReorder == InitReorder /\ [][NextReorder]_vars

\* The slots of a tuple of applied ids in reading order: left to right across
\* the tuple, left to right within each args.
RECURSIVE flat(_)
flat(t) == IF t = <<>> THEN <<>> ELSE Head(t).args \o flat(Tail(t))

Injections(S, T) == {f \in [S -> T] : \A a \in S, b \in S : a # b => f[a] # f[b]}

\* a <= b in the lexicographic order, for tuples of one length.
RECURSIVE LexLeq(_, _)
LexLeq(a, b) ==
    \/ a = <<>>
    \/ Head(a) < Head(b)
    \/ Head(a) = Head(b) /\ LexLeq(Tail(a), Tail(b))

\* The example of the comment above reorder.
reorder_example ==
    reorder(<<AppliedId(2, <<4, 2, 1>>), AppliedId(5, <<0, 1, 3, 4>>)>>).out
        = <<AppliedId(2, <<0, 1, 2>>), AppliedId(5, <<3, 2, 4, 0>>)>>

\* C13: reorder relabels the slots in the order they are first met. The map is
\* a bijection from the occurring slots onto 0..k-1, the ids are unchanged,
\* each output args is the map applied pointwise, and the output is the
\* lexicographically least relabelling of the input by an injection of the
\* occurring slots into the naturals.
ReorderContract ==
    /\ call.op = "reorder" =>
          LET t == call.t
              d == call.d
              out == call.out
              occ == SetOf(flat(t))
          IN  /\ SetOf(d) = occ
              /\ Len(d) = Cardinality(occ)
              /\ \A i \in 1 .. Len(d), j \in 1 .. Len(d) :
                    i < j => index(flat(t), d[i]) < index(flat(t), d[j])
              /\ Len(out) = Len(t)
              /\ \A i \in 1 .. Len(t) :
                    /\ out[i].id = t[i].id
                    /\ Len(out[i].args) = Len(t[i].args)
                    /\ \A j \in 1 .. Len(t[i].args) :
                          out[i].args[j] = index(d, t[i].args[j])
              /\ \A f \in Injections(occ, 0 .. Len(d)) :
                    LexLeq(flat(out), [j \in 1 .. Len(flat(t)) |-> f[flat(t)[j]]])
    /\ reorder_example

\* Two applied ids that share slots, the first met in the order 2, 1, 0.
ReorderContractWitness ==
    /\ call.op = "reorder"
    /\ call.t = <<AppliedId(2, <<2, 1, 1>>), AppliedId(1, <<0, 1, 2>>)>>
    /\ call.d = <<2, 1, 0>>
    /\ call.out = <<AppliedId(2, <<0, 1, 1>>), AppliedId(1, <<2, 1, 0>>)>>

\* C14: reordering the relabelled tuple again returns it unchanged:
\* reorder(reorder(t)[1])[1] = reorder(t)[1].
ReorderIdempotent ==
    (call.op = "reorder" /\ calls >= 2) => call.out = call.t

\* The second reorder, applied to the output of the first.
ReorderIdempotentWitness ==
    /\ call.op = "reorder"
    /\ calls = 2
    /\ call.out = <<AppliedId(0, <<0, 1>>), AppliedId(1, <<1, 2, 0>>)>>

(***************************************************************************)
(* EGraph of src/egraph.py over its SlottedUF. EGraph.add calls Node at    *)
(* line 21, a name that egraph.py does not define and suf.py does not      *)
(* export (the node classes are FnNode and VarNode): Python raises         *)
(* NameError when it evaluates the name, before find is called. Nothing is *)
(* ever stored, so the hashcons stays the empty dict of line 16 and is not *)
(* a variable here. A NameError leaves all state as it was, and the caller *)
(* may go on. The call record keeps the nodes passed to add before.        *)
(***************************************************************************)
FnNode(f, args) == [f |-> f, args |-> args]

\* The nodes of the callers: a symbol and up to one child, a well-formed
\* applied id.
FnNodes(cs) ==
    {FnNode(f, a) : f \in {"f", "g"}, a \in {<<>>} \cup {<<x>> : x \in WellFormed(cs)}}

InitEGraph ==
    /\ classes = <<>>
    /\ err = ""
    /\ calls = 0
    /\ call = NoCall

\* self.suf.alloc(arity)
SufAlloc(arity) ==
    /\ calls < MaxCalls
    /\ classes' = alloc(classes, arity).cs
    /\ err' = ""
    /\ calls' = calls + 1
    /\ UNCHANGED call

\* EGraph.add(n)
EGraphAdd(n) ==
    /\ calls < MaxCalls
    /\ err' = "NameError"
    /\ calls' = calls + 1
    /\ call' = [op |-> "add", x |-> n, y |-> NoLeader, before |-> classes,
                added |-> IF call.op = "add" THEN call.added \cup {call.x} ELSE {}]
    /\ UNCHANGED classes

NextEGraph ==
    \/ \E a \in Arities : SufAlloc(a)
    \/ \E n \in FnNodes(classes) : EGraphAdd(n)

SpecEGraph == InitEGraph /\ [][NextEGraph]_vars

\* The key of a node in the hashcons: its symbol and its found children,
\* reordered.
shape(cs, n) == FnNode(n.f, reorder([i \in 1 .. Len(n.args) |-> find(cs, n.args[i])]).out)

\* C15: an add of a node whose symbol and reordered, found children are those
\* of a node added before returns (the stored applied id, in the slots of the
\* node being added) and allocates no class.
EGraphAddHit ==
    (/\ call.op = "add"
     /\ \E m \in call.added : shape(classes, m) = shape(classes, call.x))
        => (err = "" /\ Len(classes) = Len(call.before))

\* C16: Group.add with a tuple whose length is not the arity of the group is
\* a fatal error: the call does not return normally.
GroupAddRejects ==
    (call.op = "add" /\ Len(call.x.args) # classes[1].arity) => err # ""

\* A tuple of another length was added to a group that an earlier add had
\* enlarged: IndexError, and the tuple is left in the set.
GroupAddRejectsWitness ==
    /\ call.op = "add"
    /\ call.before[1].group.perms # Group(classes[1].arity).perms
    /\ Len(call.x.args) # classes[1].arity
    /\ err = "IndexError"
    /\ call.x.args \in classes[1].group.perms

(***************************************************************************)
(* mark_slots_redundant called on its own, after allocs and unions. The    *)
(* call is observed and the last one; x is taken up to renaming.           *)
(***************************************************************************)
Mark(x, slots) ==
    /\ MayCall
    /\ LET r == mark_slots_redundant(classes, x, slots)
       IN  /\ err' = r.err
           /\ \E S \in SUBSET r.passed :
                 classes' = IF r.err = "assert"
                            THEN [r.cs EXCEPT ![r.tgt + 1].group = add_all(@, S)]
                            ELSE r.cs
    /\ calls' = calls + 1
    /\ call' = [op |-> "mark", x |-> x, y |-> NoLeader, before |-> classes, slots |-> slots]

NextMark ==
    \/ Next
    \/ /\ MayCall
       /\ \E x \in WellFormed(classes), slots \in SUBSET Slots :
             /\ reorder(<<x>>).out = <<x>>
             /\ Mark(x, slots)

SpecMark == Init /\ [][NextMark]_vars

\* C17: mark_slots_redundant(x, slots) removes whole orbits. With x' = find(x)
\* and R the union of the orbits of the positions in x'.args of the slots that
\* occur there: if R is empty the state is unchanged; otherwise exactly one
\* class is allocated, of arity arity(x'.id) - |R|, and the leader of x'.id is
\* that class applied to the positions not in R, increasing.
MarkRemovesOrbits ==
    call.op = "mark" =>
        LET cs == call.before
            x == find(cs, call.x)
            C == cs[x.id + 1]
            P == {index(x.args, s) : s \in call.slots \cap SetOf(x.args)}
            R == {q \in 0 .. (C.arity - 1) :
                     \E p \in P : q = p \/ \E g \in C.group.perms : g[p + 1] = q}
            y == Len(cs)
        IN  IF R = {}
            THEN classes = cs /\ err = ""
            ELSE /\ Len(classes) = Len(cs) + 1
                 /\ classes[y + 1].arity = C.arity - Cardinality(R)
                 /\ classes[x.id + 1].leader.id = y
                 /\ LET a == classes[x.id + 1].leader.args
                    IN  /\ SetOf(a) = (0 .. (C.arity - 1)) \ R
                        /\ \A i \in 1 .. Len(a), j \in 1 .. Len(a) : i < j => a[i] < a[j]
                 /\ \A c \in Ids(cs) \ {x.id} : classes[c + 1].leader = cs[c + 1].leader

\* The class of arity 3 has the symmetry (1,0,2); marking slot 0 redundant
\* takes position 1 with it and leaves a canonical class of arity 1.
MarkRemovesOrbitsWitness ==
    /\ call.op = "mark"
    /\ call.x = AppliedId(0, <<0, 1, 2>>)
    /\ call.slots = {0}
    /\ call.before[1].group.perms = {<<0, 1, 2>>, <<1, 0, 2>>}
    /\ classes[1].leader = AppliedId(1, <<2>>)
    /\ classes[2].arity = 1
    /\ Canonical(classes, 1)

\* C18: a union of x and y whose found forms have the same class id and equal
\* slot sets, and that are not equal yet, only inserts the reordered args of y
\* into the group of that class and closes it: no class is allocated, no
\* leader changes, the other groups are unchanged, and is_equal(x, y) holds
\* afterwards.
SelfSymmetryUnion ==
    LET cs == call.before
        x == find(cs, call.x)
        y == find(cs, call.y)
    IN  (/\ call.op = "union"
         /\ x.id = y.id
         /\ SetOf(x.args) = SetOf(y.args)
         /\ ~is_equal(cs, call.x, call.y))
            => /\ err = ""
               /\ Len(classes) = Len(cs)
               /\ \A c \in Ids(cs) :
                     /\ classes[c + 1].leader = cs[c + 1].leader
                     /\ classes[c + 1].arity = cs[c + 1].arity
                     /\ c # x.id => classes[c + 1].group = cs[c + 1].group
               /\ classes[x.id + 1].group.perms
                     = products(cs[x.id + 1].group.perms,
                                cs[x.id + 1].group.perms \cup {reorder(<<x, y>>).out[2].args})
               /\ contains(classes[x.id + 1].group, reorder(<<x, y>>).out[2].args)
               /\ is_equal(classes, call.x, call.y)

\* union(a[0,1], a[1,0]) on a fresh class of arity 2: the swap joins the group.
SelfSymmetryUnionWitness ==
    /\ call.op = "union"
    /\ call.x = AppliedId(0, <<0, 1>>)
    /\ call.y = AppliedId(0, <<1, 0>>)
    /\ call.before[1].group.perms = {<<0, 1>>}
    /\ classes[1].group.perms = {<<0, 1>>, <<1, 0>>}
    /\ classes[1].leader = NoLeader

(***************************************************************************)
(* The queries find and is_equal, called after allocs and unions and after *)
(* each other. The call record keeps the arguments and the result.         *)
(***************************************************************************)
MayQuery ==
    /\ call.op \in {"none", "find", "is_equal"}
    /\ err = ""
    /\ calls < MaxCalls

\* find that compresses the path: the class of x is redirected to the
\* canonical class that find reached.
FindCompressing(x) ==
    /\ MayQuery
    /\ classes' = IF classes[x.id + 1].leader = NoLeader THEN classes
                  ELSE [classes EXCEPT ![x.id + 1].leader =
                           find(classes, AppliedId(x.id, identity_perm(classes[x.id + 1].arity)))]
    /\ calls' = calls + 1
    /\ call' = [op |-> "find", x |-> x, y |-> NoLeader, before |-> classes,
                ret |-> find(classes, x)]
    /\ UNCHANGED err

\* find(x): no statement of lines 59-67 assigns to self.classes or to a class.
Find(x) ==
    /\ MayQuery
    /\ calls' = calls + 1
    /\ call' = [op |-> "find", x |-> x, y |-> NoLeader, before |-> classes,
                ret |-> find(classes, x)]
    /\ UNCHANGED <<classes, err>>

\* is_equal(x, y): lines 145-151 call find, reorder and contains and assign
\* to locals only.
IsEqual(x, y) ==
    /\ MayQuery
    /\ calls' = calls + 1
    /\ call' = [op |-> "is_equal", x |-> x, y |-> y, before |-> classes,
                ret |-> is_equal(classes, x, y)]
    /\ UNCHANGED <<classes, err>>

NextQuery ==
    \/ Next
    \/ /\ MayQuery
       /\ \E x \in WellFormed(classes) :
             /\ reorder(<<x>>).out = <<x>>
             /\ Find(x)
    \/ /\ MayQuery
       /\ \E x \in WellFormed(classes), y \in WellFormed(classes) :
             /\ FirstOccurrenceOrder(x, y)
             /\ IsEqual(x, y)

SpecQuery == Init /\ [][NextQuery]_vars

\* C19: find and is_equal are read-only: a query leaves the classes, their
\* arities, leaders and groups as they were, and the same query repeated with
\* no union in between returns the same result.
QueriesReadOnly ==
    [][call'.op \in {"find", "is_equal"} =>
          /\ classes' = classes
          /\ (call.op = call'.op /\ call.x = call'.x /\ call.y = call'.y)
                => call'.ret = call.ret]_vars

\* find was called on an applied id of a redirected class and returned an
\* applied id of another class.
QueriesReadOnlyWitness ==
    /\ call.op = "find"
    /\ calls = MaxCalls
    /\ call.before = classes
    /\ classes[call.x.id + 1].leader # NoLeader
    /\ call.ret.id # call.x.id

\* The indexing x.args[a_i] of find is in range at every leader edge on the
\* way from x.
RECURSIVE find_in_range(_, _, _)
find_in_range(cs, x, fuel) ==
    LET l == cs[x.id + 1].leader
    IN  IF l = NoLeader \/ fuel = 0 THEN TRUE
        ELSE /\ \A i \in 1 .. Len(l.args) : l.args[i] < Len(x.args)
             /\ find_in_range(cs, AppliedId(l.id, [i \in 1 .. Len(l.args) |->
                                                     x.args[l.args[i] + 1]]), fuel - 1)

\* C20: find preserves well-formedness. Each leader edge leader(c) = c'[a] has
\* len(a) = arity(c') and entries below arity(c), so for every x with
\* len(x.args) = arity(x.id) no indexing in find is out of range and the
\* result has as many args as the arity of its class.
FindWellFormed ==
    /\ \A c \in Ids(classes) :
          LET l == classes[c + 1].leader
          IN  l # NoLeader =>
                 /\ l.id \in Ids(classes)
                 /\ Len(l.args) = classes[l.id + 1].arity
                 /\ \A i \in 1 .. Len(l.args) : l.args[i] < classes[c + 1].arity
    /\ \A x \in WellFormed(classes) :
          /\ find_in_range(classes, x, Len(classes))
          /\ find(classes, x).id \in Ids(classes)
          /\ Len(find(classes, x).args) = classes[find(classes, x).id + 1].arity

\* find follows an edge to a class of smaller arity.
FindWellFormedWitness ==
    \E x \in WellFormed(classes) :
        /\ find(classes, x).id # x.id
        /\ Len(find(classes, x).args) < Len(x.args)
        /\ Len(find(classes, x).args) > 0
====
